---- MODULE Spec2Model ----
(***************************************************************************)
(* Model of pyscript_to_package/main.py: the `migrate` command, which      *)
(* turns stand-alone scripts into uv packages and optionally registers     *)
(* them in an umbrella package's pyproject.toml.                           *)
(*                                                                         *)
(* Strings are sequences of string tokens, so that formatting, the stem    *)
(* of a file name and the hyphen replacement are computed, not assumed.    *)
(* A TOML document and a Python dict are functions from keys to values; a  *)
(* key that is missing is missing from the DOMAIN.  A directory is a       *)
(* record of the files it holds (a function from file name to content).    *)
(***************************************************************************)
EXTENDS Integers, Sequences, FiniteSets, TLC

VARIABLES
    args,         \* the command line: scripts, register, giturl_pattern
    contents,     \* text of each script file (a sequence of lines)
    pkgs,         \* cwd/<bin_name> for every stem: the package directories
    umbrella,     \* the directory named by --register
    status,       \* "idle", "running", "done" or "failed" (an exception ended the run)
    exc,          \* the exception that ended the run, "" when none
    rc,           \* return code of the last external tool of the run
    i,            \* position of the for loop in args.scripts
    pc,           \* the step of the loop body that comes next
    script_path,  \* loop local
    bin_name,     \* loop local
    pkg_name,     \* loop local
    runs,         \* number of invocations of migrate so far
    prev,         \* status and umbrella at the end of the previous invocation
    writes,       \* number of times the umbrella pyproject.toml was written
    registered,   \* positions of the scripts this invocation has registered
    pkgs0,        \* the package directories before the first invocation
    umbrella0     \* the umbrella directory before the first invocation

vars == <<args, contents, pkgs, umbrella, status, exc, rc, i, pc, script_path,
          bin_name, pkg_name, runs, prev, writes, registered, pkgs0, umbrella0>>

----------------------------------------------------------------------------
(* Bounds of the model *)

MaxRuns == 2
MaxScripts == 2
MaxInitDeps == 1
MaxNameLen == 3

----------------------------------------------------------------------------
(* dict / TOML table operations *)

EmptyMap == <<>>

Has(d, k) == k \in DOMAIN d

Get(d, k, default) == IF k \in DOMAIN d THEN d[k] ELSE default

Put(d, k, v) == [x \in DOMAIN d \cup {k} |-> IF x = k THEN v ELSE d[x]]

Remove(d, k) == [x \in DOMAIN d \ {k} |-> d[x]]

Contains(seq, x) == \E k \in 1..Len(seq) : seq[k] = x

----------------------------------------------------------------------------
(* Names derived from a script path *)

\* index of the last "." of a name, 0 when there is none: str.rfind
RECURSIVE RFind(_, _)
RFind(name, k) ==
    IF k = 0 THEN 0
    ELSE IF name[k] = "." THEN k
    ELSE RFind(name, k - 1)

\* pathlib's PurePath.stem as of Python 3.12 and 3.13: the final component
\* without its last suffix; a leading or a trailing dot starts no suffix
Stem(name) ==
    LET d == RFind(name, Len(name))
    IN  IF 1 < d /\ d < Len(name) THEN SubSeq(name, 1, d - 1) ELSE name

\* str.replace(old, new) on a sequence of characters
RECURSIVE Replace(_, _, _)
Replace(s, old, new) ==
    IF s = <<>> THEN <<>>
    ELSE <<IF Head(s) = old THEN new ELSE Head(s)>> \o Replace(Tail(s), old, new)

get_pkg_name_first_only(p) ==
    LET s == Stem(p.name)
        h == {k \in 1..Len(s) : s[k] = "-"}
    IN  IF h = {} THEN s
        ELSE LET f == CHOOSE k \in h : \A m \in h : k <= m
             IN  [k \in 1..Len(s) |-> IF k = f THEN "_" ELSE s[k]]

get_pkg_name(p) == Replace(Stem(p.name), "-", "_")

get_bin_name(p) == Stem(p.name)

----------------------------------------------------------------------------
(* The scripts, patterns and directories the model runs on *)

S1 == [dir |-> "d1", name |-> <<"a", "-", "b", ".", "py">>]
S2 == [dir |-> "d2", name |-> <<"a", "-", "b", ".", "py">>]
S3 == [dir |-> "d1", name |-> <<"a", "_", "b", ".", "py">>]

ScriptPool == {S1, S2, S3}

NoScript == [dir |-> "", name |-> <<>>]

Stems == {get_bin_name(p) : p \in ScriptPool}

\* a line is a sequence of tokens; "def main()" is one token
OrigContent(p) ==
    IF p = S1 THEN << <<"print(1)">> >>
    ELSE IF p = S2 THEN << <<"def main()", ":">>, <<"    ", "print(2)">> >>
    ELSE << <<"print(3)">>, <<"print(4)">> >>

EditedContent == << <<"def main()", ":">>, <<"    ", "print(5)">> >>

OtherContent == << <<"print(0)">> >>

DefaultPattern == <<"git+https://github.com/brettviren/", "{repo}">>
FixedPattern == <<"git+https://example.org/tools">>

Patterns == {DefaultPattern, FixedPattern}

Format_keeps_field(pattern, repo) == pattern

\* str.format(repo=...): every {repo} field is replaced
RECURSIVE Format(_, _)
Format(pattern, repo) ==
    IF pattern = <<>> THEN <<>>
    ELSE (IF Head(pattern) = "{repo}" THEN repo ELSE <<Head(pattern)>>)
         \o Format(Tail(pattern), repo)

DepEntry(pkg, git_url) == pkg \o <<" @ ">> \o git_url

EntryPoint(pkg) == pkg \o <<".main:main">>

----------------------------------------------------------------------------
(* Directories and the files the external tools create *)

Dir(files, git) == [exists |-> TRUE, files |-> files, git |-> git]

AbsentDir == [exists |-> FALSE, files |-> EmptyMap, git |-> FALSE]

\* pyproject.toml as `uv init --lib` writes it: a project table with an
\* empty dependency list and no scripts table
FreshManifest == [project |-> [readme |-> <<"README.md">>, dependencies |-> <<>>]]

\* `uv init --lib <dir>`: with vcs it also makes a git repository and a
\* .gitignore (it does when the directory is not inside a work tree)
UvInitLib(vcs) ==
    LET base == ("pyproject.toml" :> FreshManifest) @@ ("README.md" :> <<>>)
    IN  IF vcs THEN Dir(base @@ (".gitignore" :> << <<"__pycache__/">> >>), TRUE)
        ELSE Dir(base, FALSE)

StaleEntryPoint == <<"old.cli:run">>
OtherBin == <<"other-tool">>
OtherDep == <<"requests>=2">>

\* a package directory left by an earlier migration of another script
OldMigration(stem) ==
    Dir(("pyproject.toml" :>
            [project |-> [readme |-> <<"README.org", "text/org">>,
                          dependencies |-> <<>>,
                          scripts |-> (stem :> StaleEntryPoint)]])
        @@ ("main.py" :> OtherContent)
        @@ ("README.org" :> << <<"* old">> >>)
        @@ (".gitignore" :> << <<"*~">> >>),
        TRUE)

\* a directory of that name holding a pyproject.toml without a project table
ForeignDir == Dir(("pyproject.toml" :> EmptyMap), FALSE)

\* a directory of that name holding nothing
BareDir == Dir(EmptyMap, FALSE)

PkgInitStates(stem) == {AbsentDir, OldMigration(stem), ForeignDir, BareDir}

Range(seq) == {seq[k] : k \in 1..Len(seq)}

SeqsUpTo(S, n) == UNION {[1..k -> S] : k \in 0..n}

\* the command lines: up to MaxScripts different script paths, with or
\* without --register, with either pattern
ArgSets ==
    {[scripts |-> ss, register |-> r, giturl_pattern |-> g] :
        ss \in {q \in SeqsUpTo(ScriptPool, MaxScripts) :
                  \A j, k \in DOMAIN q : q[j] = q[k] => j = k},
        r \in BOOLEAN, g \in Patterns}

\* the command name and the dependency string of the first script, if any
NamesOf(a) ==
    LET first == {a.scripts[k] : k \in DOMAIN a.scripts \cap {1}}
    IN  [bin |-> {get_bin_name(p) : p \in first},
         dep |-> {DepEntry(get_pkg_name(p), Format(a.giturl_pattern, get_bin_name(p))) :
                    p \in first}]

\* the umbrella manifests a run may find: no project table, or a project
\* table with or without a dependency list and with or without scripts; the
\* lists hold a foreign string or the first script's own, the scripts table
\* a foreign command and the first script's with a stale target
UmbrellaDocs(a) ==
    LET n == NamesOf(a)
        depLists == SeqsUpTo(n.dep \cup {OtherDep}, MaxInitDeps)
        stale == [k \in n.bin \cup {OtherBin} |-> StaleEntryPoint]
        base == [readme |-> <<"README.md">>]
    IN  {EmptyMap}
        \cup {[project |-> t] : t \in {base, Put(base, "scripts", stale)}}
        \cup {[project |-> Put(t, "dependencies", d)] :
                t \in {base, Put(base, "scripts", stale)}, d \in depLists}

UmbrellaInitStates(a) ==
    {AbsentDir, BareDir}
    \cup {Dir(("pyproject.toml" :> doc), FALSE) : doc \in UmbrellaDocs(a)}

Init ==
    /\ args \in ArgSets
    /\ args.register = FALSE => args.giturl_pattern = DefaultPattern
    /\ contents = [p \in ScriptPool |-> OrigContent(p)]
    /\ pkgs \in [Stems -> UNION {PkgInitStates(s) : s \in Stems}]
    /\ \A s \in Stems :
          /\ pkgs[s] \in PkgInitStates(s)
          \* a directory of the first script's name may be there already
          /\ s \notin NamesOf(args).bin => pkgs[s] = AbsentDir
    /\ umbrella \in UmbrellaInitStates(args)
    /\ args.register = FALSE => umbrella = AbsentDir
    /\ status = "idle"
    /\ exc = ""
    /\ rc = 0
    /\ i = 0
    /\ pc = "for"
    /\ script_path = NoScript
    /\ bin_name = <<>>
    /\ pkg_name = <<>>
    /\ runs = 0
    /\ prev = [status |-> "idle", umbrella |-> umbrella]
    /\ writes = 0
    /\ registered = {}
    /\ pkgs0 = pkgs
    /\ umbrella0 = umbrella

----------------------------------------------------------------------------
(* Pure parts of the loop body *)

\* "def main()" in content
HasMain(content) ==
    \E k \in 1..Len(content) : \E t \in 1..Len(content[k]) : content[k][t] = "def main()"

\* the basic wrap: every line indented under def main(), then the guard
Wrap(content) ==
    << <<"def main():">> >>
    \o [k \in 1..Len(content) |-> <<"    ">> \o content[k]]
    \o << <<>>, <<"if __name__ == '__main__':">>, <<"    main()">> >>

MainPyText(content) == IF HasMain(content) THEN content ELSE Wrap(content)

\* the title line, an empty line and the line naming the script file
ReadmeOrgText(bin, name) ==
    << <<"* ">> \o bin, <<>>, <<"Migrated from ">> \o name >>

SetEntryPoint_if_absent(project, bin, pkg) ==
    LET scripts == Get(project, "scripts", EmptyMap)
    IN  Put(project, "scripts",
            IF Has(scripts, bin) THEN scripts ELSE Put(scripts, bin, EntryPoint(pkg)))

\* if "scripts" not in project: project["scripts"] = {}
\* project["scripts"][bin_name] = f"{pkg_name}.main:main"
SetEntryPoint(project, bin, pkg) ==
    LET scripts == Get(project, "scripts", EmptyMap)
    IN  Put(project, "scripts", Put(scripts, bin, EntryPoint(pkg)))

\* step 4 on a loaded document that has a project table
UpdatedLocalManifest(pp_data, bin, pkg) ==
    LET withReadme == Put(pp_data["project"], "readme", <<"README.org", "text/org">>)
    IN  Put(pp_data, "project", SetEntryPoint(withReadme, bin, pkg))

\* The result of update_umbrella_deps_bin on a loaded document: the
\* exception it raises ("" when none), the document it holds at the end and
\* whether it wrote the file.
update_umbrella_deps_bin_always_appends(data, pkg, bin, git_url) ==
    LET deps  == Get(Get(data, "project", EmptyMap), "dependencies", <<>>)
        entry == DepEntry(pkg, git_url)
    IN  IF ~Has(data, "project")
        THEN [exc |-> "KeyError", data |-> data, write |-> FALSE]
        ELSE [exc |-> "",
              data |-> Put(data, "project",
                           SetEntryPoint(Put(data["project"], "dependencies",
                                             Append(deps, entry)), bin, pkg)),
              write |-> TRUE]

update_umbrella_deps_bin_replaces(data, pkg, bin, git_url) ==
    LET deps  == Get(Get(data, "project", EmptyMap), "dependencies", <<>>)
        entry == DepEntry(pkg, git_url)
    IN  IF ~Has(data, "project")
        THEN [exc |-> "KeyError", data |-> data, write |-> FALSE]
        ELSE [exc |-> "",
              data |-> Put(data, "project",
                           SetEntryPoint(
                               IF Contains(deps, entry) THEN data["project"]
                               ELSE Put(data["project"], "dependencies", <<entry>>),
                               bin, pkg)),
              write |-> TRUE]

update_umbrella_deps_bin_writes_if_changed(data, pkg, bin, git_url) ==
    LET deps  == Get(Get(data, "project", EmptyMap), "dependencies", <<>>)
        entry == DepEntry(pkg, git_url)
        new   == Put(data, "project",
                     SetEntryPoint(
                         IF Contains(deps, entry) THEN data["project"]
                         ELSE Put(data["project"], "dependencies", Append(deps, entry)),
                         bin, pkg))
    IN  IF ~Has(data, "project")
        THEN [exc |-> "KeyError", data |-> data, write |-> FALSE]
        ELSE [exc |-> "", data |-> new, write |-> new # data]

update_umbrella_deps_bin(data, pkg, bin, git_url) ==
    LET deps  == Get(Get(data, "project", EmptyMap), "dependencies", <<>>)
        entry == DepEntry(pkg, git_url)
    IN  IF ~Contains(deps, entry) /\ ~Has(data, "project")
        THEN \* data["project"]["dependencies"] = deps, without a project table
             [exc |-> "KeyError", data |-> data, write |-> FALSE]
        ELSE LET project1 == IF Contains(deps, entry) THEN data["project"]
                             ELSE Put(data["project"], "dependencies",
                                      Append(deps, entry))
             IN  [exc |-> "",
                  data |-> Put(data, "project", SetEntryPoint(project1, bin, pkg)),
                  write |-> TRUE]

\* update_umbrella_deps, the variant without the entry point: it writes the
\* file only when it appended
update_umbrella_deps(data, pkg, git_url) ==
    LET deps  == Get(Get(data, "project", EmptyMap), "dependencies", <<>>)
        entry == DepEntry(pkg, git_url)
    IN  IF Contains(deps, entry)
        THEN [exc |-> "", data |-> data, write |-> FALSE]
        ELSE IF ~Has(data, "project")
        THEN [exc |-> "KeyError", data |-> data, write |-> FALSE]
        ELSE [exc |-> "",
              data |-> Put(data, "project",
                           Put(data["project"], "dependencies", Append(deps, entry))),
              write |-> TRUE]

----------------------------------------------------------------------------
(* The migrate command, one action per step of the loop body *)

Running == status = "running"

cur == pkgs[bin_name]

Raise(e) == status' = "failed" /\ exc' = e

UmbrellaDeps(u) ==
    IF u.exists /\ Has(u.files, "pyproject.toml")
    THEN Get(Get(u.files["pyproject.toml"], "project", EmptyMap), "dependencies", <<>>)
    ELSE <<>>

UmbrellaScripts(u) ==
    IF u.exists /\ Has(u.files, "pyproject.toml")
    THEN Get(Get(u.files["pyproject.toml"], "project", EmptyMap), "scripts", EmptyMap)
    ELSE EmptyMap

\* the user runs the command (again)
StartRun ==
    /\ status \in {"idle", "done", "failed"}
    /\ runs < MaxRuns
    /\ status' = "running"
    /\ exc' = ""
    /\ rc' = 0
    /\ i' = 1
    /\ pc' = "for"
    /\ runs' = runs + 1
    /\ prev' = [status |-> status, umbrella |-> umbrella]
    /\ registered' = {}
    /\ script_path' = NoScript
    /\ bin_name' = <<>>
    /\ pkg_name' = <<>>
    /\ UNCHANGED <<args, contents, pkgs, umbrella, writes, pkgs0, umbrella0>>

\* the user edits one of the scripts between two runs (one edit is modelled)
EditScript ==
    /\ status \in {"done", "failed"}
    /\ runs < MaxRuns
    /\ \A p \in ScriptPool : contents[p] = OrigContent(p)
    /\ \E p \in Range(args.scripts) :
          contents' = [contents EXCEPT ![p] = EditedContent]
    /\ UNCHANGED <<args, pkgs, umbrella, status, exc, rc, i, pc, script_path,
                   bin_name, pkg_name, runs, prev, writes, registered, pkgs0,
                   umbrella0>>

\* for script in scripts: the names of this script, or the end of the run
ForLoop ==
    /\ Running /\ pc = "for"
    /\ IF i > Len(args.scripts)
       THEN /\ status' = "done"
            /\ UNCHANGED <<pc, script_path, bin_name, pkg_name>>
       ELSE /\ script_path' = args.scripts[i]
            /\ bin_name' = get_bin_name(args.scripts[i])
            /\ pkg_name' = get_pkg_name(args.scripts[i])
            /\ pc' = "pkg_dir"
            /\ UNCHANGED status
    /\ UNCHANGED <<args, contents, pkgs, umbrella, exc, rc, i, runs, prev, writes,
                   registered, pkgs0, umbrella0>>

\* 1. Create Package Directory
CreatePackageDirectory ==
    /\ Running /\ pc = "pkg_dir"
    /\ \/ /\ cur.exists
          /\ pc' = "main_py"
          /\ UNCHANGED <<pkgs, status, exc, rc>>
       \/ /\ ~cur.exists
          /\ \E vcs \in BOOLEAN : pkgs' = [pkgs EXCEPT ![bin_name] = UvInitLib(vcs)]
          /\ rc' = 0
          /\ pc' = "main_py"
          /\ UNCHANGED <<status, exc>>
       \/ /\ ~cur.exists
          /\ rc' = 1
          /\ Raise("CalledProcessError")
          /\ UNCHANGED <<pkgs, pc>>
    /\ UNCHANGED <<args, contents, umbrella, i, script_path, bin_name, pkg_name,
                   runs, prev, writes, registered, pkgs0, umbrella0>>

SetupMainPy_overwrites ==
    /\ Running /\ pc = "main_py"
    /\ pkgs' = [pkgs EXCEPT ![bin_name] =
                  Dir(Put(cur.files, "main.py", MainPyText(contents[script_path])),
                      cur.git)]
    /\ pc' = "readme"
    /\ UNCHANGED <<args, contents, umbrella, status, exc, rc, i, script_path,
                   bin_name, pkg_name, runs, prev, writes, registered, pkgs0,
                   umbrella0>>

\* 2. Setup src structure and main.py
SetupMainPy ==
    /\ Running /\ pc = "main_py"
    /\ pkgs' = [pkgs EXCEPT ![bin_name] =
                  Dir(IF Has(cur.files, "main.py") THEN cur.files
                      ELSE Put(cur.files, "main.py", MainPyText(contents[script_path])),
                      cur.git)]
    /\ pc' = "readme"
    /\ UNCHANGED <<args, contents, umbrella, status, exc, rc, i, script_path,
                   bin_name, pkg_name, runs, prev, writes, registered, pkgs0,
                   umbrella0>>

\* 3. Handle README.org
HandleReadme ==
    /\ Running /\ pc = "readme"
    /\ LET files1 == Remove(cur.files, "README.md")
           files2 == IF Has(files1, "README.org") THEN files1
                     ELSE Put(files1, "README.org",
                              ReadmeOrgText(bin_name, script_path.name))
       IN  pkgs' = [pkgs EXCEPT ![bin_name] = Dir(files2, cur.git)]
    /\ pc' = "pyproject"
    /\ UNCHANGED <<args, contents, umbrella, status, exc, rc, i, script_path,
                   bin_name, pkg_name, runs, prev, writes, registered, pkgs0,
                   umbrella0>>

\* 4. Update local pyproject.toml
UpdateLocalPyproject ==
    /\ Running /\ pc = "pyproject"
    /\ \/ /\ ~Has(cur.files, "pyproject.toml")
          /\ Raise("FileNotFoundError")
          /\ UNCHANGED <<pkgs, pc>>
       \/ /\ Has(cur.files, "pyproject.toml")
          /\ ~Has(cur.files["pyproject.toml"], "project")
          /\ Raise("KeyError")
          /\ UNCHANGED <<pkgs, pc>>
       \/ /\ Has(cur.files, "pyproject.toml")
          /\ Has(cur.files["pyproject.toml"], "project")
          /\ pkgs' = [pkgs EXCEPT ![bin_name] =
                        Dir(Put(cur.files, "pyproject.toml",
                                UpdatedLocalManifest(cur.files["pyproject.toml"],
                                                     bin_name, pkg_name)),
                            cur.git)]
          /\ pc' = "git_init"
          /\ UNCHANGED <<status, exc>>
    /\ UNCHANGED <<args, contents, umbrella, rc, i, script_path, bin_name, pkg_name,
                   runs, prev, writes, registered, pkgs0, umbrella0>>

GitInit_unchecked ==
    /\ Running /\ pc = "git_init"
    /\ \/ /\ cur.git
          /\ UNCHANGED <<pkgs, rc>>
       \/ /\ ~cur.git
          /\ pkgs' = [pkgs EXCEPT ![bin_name] = Dir(cur.files, TRUE)]
          /\ rc' = 0
       \/ /\ ~cur.git
          /\ rc' = 1
          /\ UNCHANGED pkgs
    /\ pc' = "gitignore"
    /\ UNCHANGED <<args, contents, umbrella, status, exc, i, script_path, bin_name,
                   pkg_name, runs, prev, writes, registered, pkgs0, umbrella0>>

\* 5. Git Init
GitInit ==
    /\ Running /\ pc = "git_init"
    /\ \/ /\ cur.git
          /\ pc' = "gitignore"
          /\ UNCHANGED <<pkgs, status, exc, rc>>
       \/ /\ ~cur.git
          /\ pkgs' = [pkgs EXCEPT ![bin_name] = Dir(cur.files, TRUE)]
          /\ rc' = 0
          /\ pc' = "gitignore"
          /\ UNCHANGED <<status, exc>>
       \/ /\ ~cur.git
          /\ rc' = 1
          /\ Raise("CalledProcessError")
          /\ UNCHANGED <<pkgs, pc>>
    /\ UNCHANGED <<args, contents, umbrella, i, script_path, bin_name, pkg_name,
                   runs, prev, writes, registered, pkgs0, umbrella0>>

\* The .gitignore step.  Without a .gitignore the file is opened for
\* reading, which raises FileNotFoundError before the write, `git add` and
\* `git commit`: none of the three is ever reached.
GitIgnore ==
    /\ Running /\ pc = "gitignore"
    /\ \/ /\ Has(cur.files, ".gitignore")
          /\ pc' = "register"
          /\ UNCHANGED <<status, exc>>
       \/ /\ ~Has(cur.files, ".gitignore")
          /\ Raise("FileNotFoundError")
          /\ UNCHANGED pc
    /\ UNCHANGED <<args, contents, pkgs, umbrella, rc, i, script_path, bin_name,
                   pkg_name, runs, prev, writes, registered, pkgs0, umbrella0>>

\* 6. Optional Umbrella Registration: `if register` and setup_umbrella.
\* Whether uv makes the umbrella a repository is left out: nothing reads it.
Register ==
    /\ Running /\ pc = "register"
    /\ \/ /\ ~args.register
          /\ i' = i + 1
          /\ pc' = "for"
          /\ UNCHANGED <<umbrella, status, exc, rc>>
       \/ /\ args.register
          /\ umbrella.exists
          /\ pc' = "update_umbrella"
          /\ UNCHANGED <<umbrella, status, exc, rc, i>>
       \/ /\ args.register
          /\ ~umbrella.exists
          /\ umbrella' = UvInitLib(FALSE)
          /\ rc' = 0
          /\ pc' = "update_umbrella"
          /\ UNCHANGED <<status, exc, i>>
       \/ /\ args.register
          /\ ~umbrella.exists
          /\ rc' = 1
          /\ Raise("CalledProcessError")
          /\ UNCHANGED <<umbrella, pc, i>>
    /\ UNCHANGED <<args, contents, pkgs, script_path, bin_name, pkg_name, runs, prev,
                   writes, registered, pkgs0, umbrella0>>

\* update_umbrella_deps_bin(umbrella_pp, pkg_name, bin_name, git_url)
UpdateUmbrella ==
    /\ Running /\ pc = "update_umbrella"
    /\ \/ /\ ~Has(umbrella.files, "pyproject.toml")
          /\ Raise("FileNotFoundError")
          /\ UNCHANGED <<umbrella, writes, registered, i, pc>>
       \/ /\ Has(umbrella.files, "pyproject.toml")
          /\ LET git_url == Format(args.giturl_pattern, bin_name)
                 r == update_umbrella_deps_bin(umbrella.files["pyproject.toml"],
                                               pkg_name, bin_name, git_url)
             IN  IF r.exc # ""
                 THEN /\ Raise(r.exc)
                      /\ UNCHANGED <<umbrella, writes, registered, i, pc>>
                 ELSE /\ umbrella' = IF r.write
                                     THEN [umbrella EXCEPT !.files =
                                             Put(@, "pyproject.toml", r.data)]
                                     ELSE umbrella
                      /\ writes' = IF r.write THEN writes + 1 ELSE writes
                      /\ registered' = registered \cup {i}
                      /\ i' = i + 1
                      /\ pc' = "for"
                      /\ UNCHANGED <<status, exc>>
    /\ UNCHANGED <<args, contents, pkgs, rc, script_path, bin_name, pkg_name, runs,
                   prev, pkgs0, umbrella0>>

Next ==
    \/ StartRun
    \/ EditScript
    \/ ForLoop
    \/ CreatePackageDirectory
    \/ SetupMainPy
    \/ HandleReadme
    \/ UpdateLocalPyproject
    \/ GitInit
    \/ GitIgnore
    \/ Register
    \/ UpdateUmbrella

Spec == Init /\ [][Next]_vars

----------------------------------------------------------------------------
(* The name derivation alone, over every short file name *)

Alphabet == {"a", "-", "_", "."}

NameDirs == {"d1", "d-2.x"}

\* file names: "." and ".." name directories and are left out
FileNames == SeqsUpTo(Alphabet, MaxNameLen) \ {<<>>, <<".">>, <<".", ".">>}

InitNames ==
    /\ script_path \in {[dir |-> d, name |-> n] : d \in NameDirs, n \in FileNames}
    /\ args = [scripts |-> <<script_path>>, register |-> FALSE,
               giturl_pattern |-> DefaultPattern]
    /\ contents = [p \in {script_path} |-> OtherContent]
    /\ pkgs = [s \in {} |-> AbsentDir]
    /\ umbrella = AbsentDir
    /\ status = "idle"
    /\ exc = ""
    /\ rc = 0
    /\ i = 1
    /\ pc = "names"
    /\ bin_name = <<>>
    /\ pkg_name = <<>>
    /\ runs = 0
    /\ prev = [status |-> "idle", umbrella |-> umbrella]
    /\ writes = 0
    /\ registered = {}
    /\ pkgs0 = pkgs
    /\ umbrella0 = umbrella

\* bin_name = get_bin_name(script_path); pkg_name = get_pkg_name(script_path)
DeriveNames ==
    /\ pc = "names"
    /\ bin_name' = get_bin_name(script_path)
    /\ pkg_name' = get_pkg_name(script_path)
    /\ pc' = "derived"
    /\ UNCHANGED <<args, contents, pkgs, umbrella, status, exc, rc, i, script_path,
                   runs, prev, writes, registered, pkgs0, umbrella0>>

NextNames == DeriveNames

SpecNames == InitNames /\ [][NextNames]_vars

----------------------------------------------------------------------------
(* Vocabulary of the properties *)

NoDuplicates(seq) == \A j, k \in 1..Len(seq) : seq[j] = seq[k] => j = k

IsPrefix(s, t) == Len(s) <= Len(t) /\ \A k \in 1..Len(s) : t[k] = s[k]

HasHyphen(s) == \E k \in 1..Len(s) : s[k] = "-"

HasRepoField(pattern) == \E k \in 1..Len(pattern) : pattern[k] = "{repo}"

\* the names and strings of the script at position j of the command line
BinOf(j) == get_bin_name(args.scripts[j])
PkgOf(j) == get_pkg_name(args.scripts[j])
DepOf(j) == DepEntry(PkgOf(j), Format(args.giturl_pattern, BinOf(j)))

\* the manifest of a directory, EmptyMap when it has none
ManifestOf(d) == Get(d.files, "pyproject.toml", EmptyMap)

ScriptsOf(d) == Get(Get(ManifestOf(d), "project", EmptyMap), "scripts", EmptyMap)

HasTarget(d, j) == Has(ScriptsOf(d), BinOf(j)) /\ ScriptsOf(d)[BinOf(j)] = EntryPoint(PkgOf(j))

\* the registration step, seen as a step that completes or one that starts
RegistrationDone == Running /\ pc = "update_umbrella" /\ pc' = "for"

AtRegistration ==
    Running /\ pc = "update_umbrella" /\ Has(umbrella.files, "pyproject.toml")

----------------------------------------------------------------------------
(* C1: after a run of migrate --register that ran to its end, running the  *)
(* same command again leaves the umbrella's dependency list as the first   *)
(* run left it: same strings, same order, same length, whatever the list   *)
(* held before the first run.                                              *)
C1_Idempotent ==
    (args.register /\ runs >= 2 /\ prev.status = "done")
        => UmbrellaDeps(umbrella) = UmbrellaDeps(prev.umbrella)

C1_Witness ==
    /\ args.register /\ runs = 2 /\ prev.status = "done" /\ status = "done"
    /\ registered # {}
    /\ Len(UmbrellaDeps(umbrella0)) = 1
    /\ Len(UmbrellaDeps(umbrella)) = 2

(* C2 as stated: a fresh umbrella and any two script paths; after one run   *)
(* both are there as distinct entries (two different dependency strings,   *)
(* two different command names) and no dependency string occurs twice.     *)
C2_Original ==
    (args.register /\ ~umbrella0.exists /\ runs = 1 /\ status = "done"
     /\ Len(args.scripts) = 2 /\ args.scripts[1] # args.scripts[2])
        => /\ DepOf(1) # DepOf(2)
           /\ BinOf(1) # BinOf(2)
           /\ \A j \in 1..2 : Contains(UmbrellaDeps(umbrella), DepOf(j))
                              /\ HasTarget(umbrella, j)
           /\ NoDuplicates(UmbrellaDeps(umbrella))

(* C2 amended: on a fresh umbrella, at every moment of the first run the   *)
(* manifest holds exactly the dependency strings and the command names of  *)
(* the scripts registered so far, each once; two scripts are two command   *)
(* entries exactly when their stems differ, and two dependency strings     *)
(* exactly when their package names differ or their stems differ and the   *)
(* pattern has a {repo} field.                                             *)
C2_Amended ==
    (args.register /\ ~umbrella0.exists /\ runs = 1)
        => /\ NoDuplicates(UmbrellaDeps(umbrella))
           /\ Range(UmbrellaDeps(umbrella)) = {DepOf(j) : j \in registered}
           /\ DOMAIN UmbrellaScripts(umbrella) = {BinOf(j) : j \in registered}
           /\ \A j \in registered : HasTarget(umbrella, j)
           /\ \A j, k \in registered :
                 /\ (BinOf(j) # BinOf(k)) <=>
                        (Stem(args.scripts[j].name) # Stem(args.scripts[k].name))
                 /\ (DepOf(j) # DepOf(k)) <=>
                        \/ PkgOf(j) # PkgOf(k)
                        \/ BinOf(j) # BinOf(k) /\ HasRepoField(args.giturl_pattern)

C2_Witness ==
    /\ args.register /\ ~umbrella0.exists /\ runs = 1 /\ status = "done"
    /\ registered = {1, 2}
    /\ BinOf(1) # BinOf(2)
    /\ Len(UmbrellaDeps(umbrella)) = 2

(* C3: the package name is the filename stem with every hyphen replaced by *)
(* an underscore, the command name is the stem unchanged, and the two      *)
(* differ exactly when the stem has a hyphen.                              *)
C3_Names ==
    pc = "derived" =>
        LET name == script_path.name
        IN  /\ IsPrefix(bin_name, name)
            /\ \/ /\ bin_name = name
                  /\ \/ name[Len(name)] = "."
                     \/ ~\E k \in 2..Len(name) : name[k] = "."
               \/ /\ Len(bin_name) >= 1
                  /\ Len(bin_name) + 1 < Len(name)
                  /\ name[Len(bin_name) + 1] = "."
                  /\ \A k \in (Len(bin_name) + 2)..Len(name) : name[k] # "."
            /\ Len(pkg_name) = Len(bin_name)
            /\ \A k \in 1..Len(bin_name) :
                  pkg_name[k] = IF bin_name[k] = "-" THEN "_" ELSE bin_name[k]
            /\ ~HasHyphen(pkg_name)
            /\ (pkg_name # bin_name) <=> HasHyphen(bin_name)

C3_Witness ==
    /\ pc = "derived"
    /\ script_path.name = <<"-", ".", "a">>
    /\ bin_name = <<"-">>
    /\ pkg_name = <<"_">>

(* C4: when an external tool returns nonzero while script i is processed,  *)
(* the run ends there: the step changes no file, script i is not           *)
(* registered, and until the command is run again nothing changes.         *)
C4_FailFast ==
    [][/\ rc' # 0 =>
            /\ status' = "failed" /\ exc' = "CalledProcessError"
            /\ pkgs' = pkgs /\ umbrella' = umbrella /\ writes' = writes
            /\ i' = i /\ pc' = pc
            /\ \A j \in registered' : j < i'
       /\ (rc # 0 /\ runs' = runs) =>
            UNCHANGED <<pkgs, umbrella, writes, status, exc, rc, i, pc, registered>>
      ]_vars

C4_Witness ==
    /\ rc # 0 /\ status = "failed"
    /\ pc = "git_init"
    /\ i = 2 /\ registered = {1}
    /\ pkgs[bin_name].exists
    /\ ~Contains(UmbrellaDeps(umbrella), DepOf(2))

(* C5: registration is additive: the dependency list before is a prefix of *)
(* the list after, at most one string is appended, every command entry     *)
(* under another key keeps its value, no entry and no other key of the     *)
(* project table is removed or changed.                                    *)
C5_Additive ==
    [][RegistrationDone =>
        LET before == Get(ManifestOf(umbrella), "project", EmptyMap)
            after  == Get(ManifestOf(umbrella'), "project", EmptyMap)
        IN  /\ IsPrefix(UmbrellaDeps(umbrella), UmbrellaDeps(umbrella'))
            /\ Len(UmbrellaDeps(umbrella')) <= Len(UmbrellaDeps(umbrella)) + 1
            /\ \A k \in DOMAIN UmbrellaScripts(umbrella) :
                  /\ k \in DOMAIN UmbrellaScripts(umbrella')
                  /\ k # bin_name =>
                        UmbrellaScripts(umbrella')[k] = UmbrellaScripts(umbrella)[k]
            /\ DOMAIN UmbrellaScripts(umbrella') =
                  DOMAIN UmbrellaScripts(umbrella) \cup {bin_name}
            /\ \A key \in DOMAIN before \ {"dependencies", "scripts"} :
                  key \in DOMAIN after /\ after[key] = before[key]
            /\ DOMAIN ManifestOf(umbrella') = DOMAIN ManifestOf(umbrella)
      ]_vars

C5_Witness ==
    /\ runs = 1 /\ 1 \in registered
    /\ UmbrellaDeps(umbrella0) = <<OtherDep>>
    /\ UmbrellaDeps(umbrella) = <<OtherDep, DepOf(1)>>
    /\ Has(UmbrellaScripts(umbrella), OtherBin)
    /\ UmbrellaScripts(umbrella)[OtherBin] = StaleEntryPoint

(* C6: once a script has been processed, its package manifest and, with    *)
(* --register, the umbrella manifest map its command name to               *)
(* "<package>.main:main", whatever the key held before and also when there *)
(* was no scripts table.                                                   *)
C6_EntryPointOverwritten ==
    status # "idle" =>
        \A j \in 1..(i - 1) :
            /\ HasTarget(pkgs[BinOf(j)], j)
            /\ args.register => HasTarget(umbrella, j)

C6_Witness ==
    /\ status = "done" /\ runs = 1 /\ i >= 2 /\ args.register
    /\ pkgs0[BinOf(1)] = OldMigration(BinOf(1))
    /\ Has(ScriptsOf(umbrella0), BinOf(1))
    /\ ScriptsOf(umbrella0)[BinOf(1)] = StaleEntryPoint
    /\ HasTarget(umbrella, 1)

(* C7 as stated: a scaffolding target that is absent when its step starts  *)
(* is created by the step and processing goes on to the next step; without *)
(* a .gitignore the step writes one holding '*~' and goes on to the        *)
(* umbrella registration.                                                  *)
C7_Original ==
    [][Running =>
        /\ (pc = "pkg_dir" /\ ~cur.exists /\ rc' = 0) =>
              pkgs'[bin_name].exists /\ pc' = "main_py"
        /\ (pc = "main_py" /\ ~Has(cur.files, "main.py")) =>
              Has(pkgs'[bin_name].files, "main.py") /\ pc' = "readme"
        /\ (pc = "readme" /\ ~Has(cur.files, "README.org")) =>
              Has(pkgs'[bin_name].files, "README.org") /\ pc' = "pyproject"
        /\ (pc = "git_init" /\ ~cur.git /\ rc' = 0) =>
              pkgs'[bin_name].git /\ pc' = "gitignore"
        /\ (pc = "gitignore" /\ ~Has(cur.files, ".gitignore")) =>
              /\ Has(pkgs'[bin_name].files, ".gitignore")
              /\ pkgs'[bin_name].files[".gitignore"] = << <<"*~">> >>
              /\ status' = "running"
              /\ pc' = "register"
      ]_vars

(* C8 as stated: a loaded umbrella manifest without a dependency list,     *)
(* with or without a project table, is registered without error and its    *)
(* dependency list becomes exactly the one composed string.                *)
C8_Original ==
    [][(AtRegistration
        /\ ~Has(Get(ManifestOf(umbrella), "project", EmptyMap), "dependencies"))
        => /\ status' = "running"
           /\ UmbrellaDeps(umbrella') =
                 <<DepEntry(pkg_name, Format(args.giturl_pattern, bin_name))>>
      ]_vars

(* C9 as stated: when the dependency string is already in the list and the *)
(* entry point already has the computed value, registration does not write *)
(* the umbrella manifest file.                                             *)
C9_Original ==
    [][(AtRegistration
        /\ Contains(UmbrellaDeps(umbrella),
                    DepEntry(pkg_name, Format(args.giturl_pattern, bin_name)))
        /\ Has(UmbrellaScripts(umbrella), bin_name)
        /\ UmbrellaScripts(umbrella)[bin_name] = EntryPoint(pkg_name))
        => writes' = writes
      ]_vars

(* C9 amended: a registration that raises nothing writes the umbrella      *)
(* manifest file once, changed or not; when the dependency string and the  *)
(* entry point were already there the file written equals the file read.   *)
(* Only update_umbrella_deps, which migrate does not call, skips the write *)
(* when the string is already in the list.                                 *)
C9_Amended ==
    [][AtRegistration =>
        LET entry == DepEntry(pkg_name, Format(args.giturl_pattern, bin_name))
            present == /\ Contains(UmbrellaDeps(umbrella), entry)
                       /\ Has(UmbrellaScripts(umbrella), bin_name)
                       /\ UmbrellaScripts(umbrella)[bin_name] = EntryPoint(pkg_name)
            depsOnly == update_umbrella_deps(ManifestOf(umbrella), pkg_name,
                                             Format(args.giturl_pattern, bin_name))
        IN  /\ status' = "running" => writes' = writes + 1
            /\ status' # "running" => writes' = writes /\ umbrella' = umbrella
            /\ present => status' = "running" /\ umbrella' = umbrella
            /\ Contains(UmbrellaDeps(umbrella), entry) => ~depsOnly.write
      ]_vars

C9_Witness ==
    /\ args.register /\ runs = 2 /\ prev.status = "done" /\ status = "done"
    /\ registered # {}
    /\ umbrella = prev.umbrella
    /\ writes >= 2

(* C10: the package directory of a script is cwd/<stem>, and a main.py     *)
(* that exists is never written again: a step changes no package directory *)
(* but the one named by the stem of the script being processed, and the    *)
(* text of a main.py, once there, stays what the first script of that stem *)
(* made it.                                                                *)
C10_MainPyFixed ==
    [][/\ \A s \in Stems :
            /\ Has(pkgs[s].files, "main.py") =>
                   /\ Has(pkgs'[s].files, "main.py")
                   /\ pkgs'[s].files["main.py"] = pkgs[s].files["main.py"]
            /\ pkgs'[s] # pkgs[s] =>
                   Running /\ s = Stem(args.scripts[i].name)
       /\ \A s \in Stems :
            (~Has(pkgs[s].files, "main.py") /\ Has(pkgs'[s].files, "main.py")) =>
                pkgs'[s].files["main.py"] = MainPyText(contents[args.scripts[i]])
      ]_vars

C10_Witness ==
    /\ status = "done" /\ runs = 1
    /\ args.scripts = <<S1, S2>>
    /\ ~pkgs0[BinOf(1)].exists
    /\ pkgs[BinOf(2)].files["main.py"] = Wrap(OrigContent(S1))
    /\ pkgs[BinOf(2)].files["main.py"] # MainPyText(contents[S2])

====
